---- MODULE Spec2Model ----
(***************************************************************************)
(* Model of packages/webdriverio/src/context.ts: the ContextManager that   *)
(* tracks the current browsing context of a WebDriver session, and the     *)
(* module-level registry getContextManager.                                *)
(*                                                                         *)
(* JavaScript values are modelled as strings; the two values that are not  *)
(* strings in the program, undefined and null, are the reserved tokens     *)
(* Undefined and Null.                                                     *)
(***************************************************************************)
EXTENDS Naturals, Sequences, FiniteSets

VARIABLES
    currentContext,   \* ContextManager.#currentContext
    mobileContext,    \* ContextManager.#mobileContext
    isNativeContext,  \* browser.isNativeContext
    isBidi,           \* browser.isBidi
    isMobile,         \* browser.isMobile
    unitTests,        \* process.env.WDIO_UNIT_TESTS is set
    subscribed,       \* the constructor registered the 'command' and 'result' listeners
    pending,          \* per public method, its calls awaiting browser.getWindowHandle()
    last,             \* the step taken last: operation, inputs, outcome
    contextManager,   \* the module-level Map: session -> manager id (0: no entry)
    constructed,      \* the sessions the ContextManager constructor ran for, in order
    listeners,        \* per session, number of listeners registered on it
    sessionCaps,      \* per session, its isBidi / isMobile flags
    requests          \* getContextManager calls made: session and manager returned

trackerVars == <<currentContext, mobileContext, isNativeContext, isBidi, isMobile,
                 unitTests, subscribed, pending, last>>
registryVars == <<contextManager, constructed, listeners, sessionCaps, requests>>
vars == <<currentContext, mobileContext, isNativeContext, isBidi, isMobile,
          unitTests, subscribed, pending, last,
          contextManager, constructed, listeners, sessionCaps, requests>>

----------------------------------------------------------------------------
\* Bounds of the model.

\* initialize() calls that may be awaiting their fetch at the same time.
MaxPending == 2
\* getContextManager calls made in one behaviour.
MaxRequests == 4

----------------------------------------------------------------------------
\* Values.

Undefined == "<undefined>"
Null == "<null>"
NATIVE_APP == "NATIVE_APP"
\* outcome of an asynchronous call that has not settled / that was rejected
Awaiting == "<awaiting>"
Rejected == "<rejected>"
None == "<none>"

\* command names carried by events; "click" stands for every other command
Commands == {"switchToWindow", "switchToParentFrame", "refresh", "switchContext",
             "click"}
\* command names carried by 'result' events
ResultCommands == {"getContext", "switchContext", "click"}
\* event.body.handle
Handles == {Undefined, "", "h1", NATIVE_APP}
\* event.body.name
Names == {Undefined, "WEBVIEW_1", NATIVE_APP}
\* name is a parameter of switchContext; the events of other commands carry none
NamesOf(command) == IF command = "switchContext" THEN Names ELSE {Undefined}
\* event.result.value
ResultValues == {Undefined, Null, "", "h2", NATIVE_APP}
\* arguments of the public setter
SetterArgs == {"", "h1", NATIVE_APP}
\* values browser.getWindowHandle() resolves to
FetchResults == {"", "h1", "h2"}

\* JavaScript truthiness of the values above
Truthy(v) == v \notin {Undefined, Null, ""}

----------------------------------------------------------------------------
\* ContextManager

\* #isEnabled(), from the values it reads
IsEnabledOf(ut, bidi, mobile) == ~ut /\ (bidi \/ mobile)

IsEnabled == IsEnabledOf(unitTests, isBidi, isMobile)

\* setCurrentContext(context): the value stored in #currentContext
SetterContext(context) == context

\* a setter that never writes browser.isNativeContext
SetterNativeKeep(context, native) == native

\* a setter that writes the flag for an empty context too
SetterNativeNoGuard(context, native) == context = NATIVE_APP

\* setCurrentContext(context): the value written to browser.isNativeContext
SetterNative(context, native) ==
    IF Truthy(context) THEN context = NATIVE_APP ELSE native

\* a listener that acts only on events carrying a handle
CommandContextKeep(command, handle, ctx) ==
    IF Truthy(handle) THEN SetterContext(handle) ELSE ctx

\* the 'command' listener: #currentContext after the listener ran
CommandContext(command, handle, ctx) ==
    LET c1 == IF command = "switchToWindow" THEN SetterContext(handle) ELSE ctx
        c2 == IF command \in {"switchToParentFrame", "refresh"} THEN Undefined ELSE c1
        \* line 54 runs for every command and overwrites c2
        c3 == SetterContext(handle)
    IN  c3

\* the 'command' listener: browser.isNativeContext after the listener ran
CommandNative(command, handle, native) ==
    LET n1 == IF command = "switchToWindow" THEN SetterNative(handle, native) ELSE native
    IN  SetterNative(handle, n1)

\* a listener that records body.name for every command
CommandMobileAnyCommand(command, name, mobile) == name

\* the 'command' listener: #mobileContext after the listener ran
CommandMobile(command, name, mobile) ==
    IF command = "switchContext" THEN name ELSE mobile

\* a fallback test that does not look at the remembered mobile context
ResultFallbackAnyMobile(command, value, mobile) ==
    command = "switchContext" /\ value = Null

\* a fallback test that compares the result value with undefined
ResultFallbackUndefined(command, value, mobile) ==
    command = "switchContext" /\ value = Undefined /\ Truthy(mobile)

\* the 'result' listener: does the switchContext fallback branch run
ResultFallback(command, value, mobile) ==
    command = "switchContext" /\ value = Null /\ Truthy(mobile)

\* the 'result' listener: #currentContext after the listener ran
ResultContext(command, value, mobile, ctx) ==
    LET c1 == IF command = "getContext" THEN SetterContext(value) ELSE ctx
    IN  IF ResultFallback(command, value, mobile) THEN SetterContext(mobile) ELSE c1

\* the 'result' listener: browser.isNativeContext after the listener ran
ResultNative(command, value, mobile, native) ==
    LET n1 == IF command = "getContext" THEN SetterNative(value, native) ELSE native
    IN  IF ResultFallback(command, value, mobile) THEN SetterNative(mobile, n1) ELSE n1

\* the public asynchronous methods that reach the fetch
Callers == {"initialize", "getCurrentContext"}

PendingTotal == pending["initialize"] + pending["getCurrentContext"]

\* record of a step: the operation, its inputs, its outcome, #currentContext before
\* it and, for a getCurrentContext() call, the step it came after (that step's
\* operation and command, and whether #currentContext held a value before it)
Step(op, command, handle, name, value, ret, before) ==
    [op |-> op, command |-> command, handle |-> handle, name |-> name,
     value |-> value, ret |-> ret, before |-> before, after |-> None]

Read(ret) ==
    [op |-> "getCurrentContext", command |-> None, handle |-> None, name |-> None,
     value |-> None, ret |-> ret, before |-> currentContext,
     after |-> [op |-> last.op, command |-> last.command,
                held |-> Truthy(last.before)]]

\* record of an initialize() resuming with the fetched handle, with the step it
\* came after
Resumed(caller, windowHandle) ==
    [op |-> "resolve", command |-> caller, handle |-> None, name |-> None,
     value |-> None, ret |-> windowHandle, before |-> currentContext,
     after |-> [op |-> last.op, command |-> last.command,
                held |-> Truthy(last.before)]]

Call(caller, ret) ==
    IF caller = "getCurrentContext"
      THEN Read(ret)
      ELSE Step(caller, None, None, None, None, ret, currentContext)

\* the session emits a 'command' event
CommandEvent(command, handle, name) ==
    /\ IF subscribed
         THEN /\ currentContext' = CommandContext(command, handle, currentContext)
              /\ isNativeContext' = CommandNative(command, handle, isNativeContext)
              /\ mobileContext' = CommandMobile(command, name, mobileContext)
         ELSE UNCHANGED <<currentContext, isNativeContext, mobileContext>>
    /\ last' = Step("command", command, handle, name, None, None, currentContext)
    /\ UNCHANGED <<isBidi, isMobile, unitTests, subscribed, pending>>
    /\ UNCHANGED registryVars

\* the session emits a 'result' event
ResultEvent(command, value) ==
    /\ IF subscribed
         THEN /\ currentContext' = ResultContext(command, value, mobileContext, currentContext)
              /\ isNativeContext' = ResultNative(command, value, mobileContext, isNativeContext)
         ELSE UNCHANGED <<currentContext, isNativeContext>>
    /\ last' = Step("result", command, None, None, value, None, currentContext)
    /\ UNCHANGED <<mobileContext, isBidi, isMobile, unitTests, subscribed, pending>>
    /\ UNCHANGED registryVars

\* a caller invokes setCurrentContext(context)
SetCurrentContext(context) ==
    /\ currentContext' = SetterContext(context)
    /\ isNativeContext' = SetterNative(context, isNativeContext)
    /\ last' = Step("setCurrentContext", None, None, None, context, None, currentContext)
    /\ UNCHANGED <<mobileContext, isBidi, isMobile, unitTests, subscribed, pending>>
    /\ UNCHANGED registryVars

\* initialize() that fetches the window handle in a native-app context too
InitializeBodyAlwaysFetch(caller) ==
    /\ IF ~IsEnabled
         THEN /\ last' = Call(caller, "")
              /\ UNCHANGED <<currentContext, pending>>
         ELSE /\ PendingTotal < MaxPending
              /\ pending' = [pending EXCEPT ![caller] = @ + 1]
              /\ last' = Call(caller, Awaiting)
              /\ UNCHANGED currentContext
    /\ UNCHANGED <<mobileContext, isNativeContext, isBidi, isMobile, unitTests, subscribed>>
    /\ UNCHANGED registryVars

\* initialize() that goes by the decision the constructor took, not by #isEnabled()
InitializeBodyAsConstructed(caller) ==
    /\ IF ~subscribed
         THEN /\ last' = Call(caller, "")
              /\ UNCHANGED <<currentContext, pending>>
         ELSE IF isNativeContext
           THEN /\ currentContext' = NATIVE_APP
                /\ last' = Call(caller, NATIVE_APP)
                /\ UNCHANGED pending
           ELSE /\ PendingTotal < MaxPending
                /\ pending' = [pending EXCEPT ![caller] = @ + 1]
                /\ last' = Call(caller, Awaiting)
                /\ UNCHANGED currentContext
    /\ UNCHANGED <<mobileContext, isNativeContext, isBidi, isMobile, unitTests, subscribed>>
    /\ UNCHANGED registryVars

\* initialize(), up to its return or to the await of getWindowHandle();
\* caller is the public method the call was made through
InitializeBody(caller) ==
    /\ IF ~IsEnabled
         THEN /\ last' = Call(caller, "")
              /\ UNCHANGED <<currentContext, pending>>
         ELSE IF isNativeContext
           THEN /\ currentContext' = NATIVE_APP
                /\ last' = Call(caller, NATIVE_APP)
                /\ UNCHANGED pending
           ELSE /\ PendingTotal < MaxPending
                /\ pending' = [pending EXCEPT ![caller] = @ + 1]
                /\ last' = Call(caller, Awaiting)
                /\ UNCHANGED currentContext
    /\ UNCHANGED <<mobileContext, isNativeContext, isBidi, isMobile, unitTests, subscribed>>
    /\ UNCHANGED registryVars

\* a caller invokes initialize()
Initialize == InitializeBody("initialize")

\* getCurrentContext() that goes to initialize() whatever #currentContext holds
GetCurrentContextUncached == InitializeBody("getCurrentContext")

\* a caller invokes getCurrentContext()
GetCurrentContext ==
    IF ~Truthy(currentContext)
      THEN InitializeBody("getCurrentContext")
      ELSE /\ last' = Call("getCurrentContext", currentContext)
           /\ UNCHANGED <<currentContext, mobileContext, isNativeContext, isBidi, isMobile,
                          unitTests, subscribed, pending>>
           /\ UNCHANGED registryVars

\* initialize() that returns the fetched handle without storing it
FetchResolveNoStore(caller, windowHandle) ==
    /\ pending[caller] > 0
    /\ pending' = [pending EXCEPT ![caller] = @ - 1]
    /\ last' = Resumed(caller, windowHandle)
    /\ UNCHANGED <<currentContext, mobileContext, isNativeContext, isBidi, isMobile,
                   unitTests, subscribed>>
    /\ UNCHANGED registryVars

\* initialize() that keeps a context stored while it was awaiting the fetch
FetchResolveKeepsNewer(caller, windowHandle) ==
    /\ pending[caller] > 0
    /\ currentContext' = IF Truthy(currentContext) THEN currentContext ELSE windowHandle
    /\ pending' = [pending EXCEPT ![caller] = @ - 1]
    /\ last' = Resumed(caller, windowHandle)
    /\ UNCHANGED <<mobileContext, isNativeContext, isBidi, isMobile, unitTests, subscribed>>
    /\ UNCHANGED registryVars

\* getWindowHandle() resolves for an awaiting initialize(), which resumes
FetchResolve(caller, windowHandle) ==
    /\ pending[caller] > 0
    /\ currentContext' = windowHandle
    /\ pending' = [pending EXCEPT ![caller] = @ - 1]
    /\ last' = Resumed(caller, windowHandle)
    /\ UNCHANGED <<mobileContext, isNativeContext, isBidi, isMobile, unitTests, subscribed>>
    /\ UNCHANGED registryVars

\* initialize() that, when getWindowHandle() rejects, stores the empty string
FetchRejectStoresEmpty(caller) ==
    /\ pending[caller] > 0
    /\ currentContext' = ""
    /\ pending' = [pending EXCEPT ![caller] = @ - 1]
    /\ last' = Step("reject", caller, None, None, None, Rejected, currentContext)
    /\ UNCHANGED <<mobileContext, isNativeContext, isBidi, isMobile, unitTests, subscribed>>
    /\ UNCHANGED registryVars

\* getWindowHandle() rejects for an awaiting initialize(), which throws
FetchReject(caller) ==
    /\ pending[caller] > 0
    /\ pending' = [pending EXCEPT ![caller] = @ - 1]
    /\ last' = Step("reject", caller, None, None, None, Rejected, currentContext)
    /\ UNCHANGED <<currentContext, mobileContext, isNativeContext, isBidi, isMobile,
                   unitTests, subscribed>>
    /\ UNCHANGED registryVars

\* the session's capability flags or the unit-test signal change
EnvironmentChange(ut, bidi, mobile) ==
    /\ <<ut, bidi, mobile>> # <<unitTests, isBidi, isMobile>>
    /\ unitTests' = ut
    /\ isBidi' = bidi
    /\ isMobile' = mobile
    /\ last' = Step("environment", None, None, None, None, None, currentContext)
    /\ UNCHANGED <<currentContext, mobileContext, isNativeContext, subscribed, pending>>
    /\ UNCHANGED registryVars

----------------------------------------------------------------------------
\* Registry

Sessions == {"s1", "s2"}

RegistryIdle ==
    /\ contextManager = [b \in Sessions |-> 0]
    /\ constructed = <<>>
    /\ listeners = [b \in Sessions |-> 0]
    /\ sessionCaps = [b \in Sessions |-> [isBidi |-> FALSE, isMobile |-> FALSE]]
    /\ requests = <<>>

\* new ContextManager(browser): the listeners it registers on the session
ConstructorListeners(browser) ==
    IF IsEnabledOf(unitTests, sessionCaps[browser].isBidi, sessionCaps[browser].isMobile)
      THEN 2 ELSE 0

\* getContextManager with the lookup of the existing manager left out
GetContextManagerNoLookup(browser) ==
    /\ Len(requests) < MaxRequests
    /\ constructed' = Append(constructed, browser)
    /\ listeners' = [listeners EXCEPT ![browser] = @ + ConstructorListeners(browser)]
    /\ contextManager' = [contextManager EXCEPT ![browser] = Len(constructed) + 1]
    /\ requests' = Append(requests, [browser |-> browser, manager |-> Len(constructed) + 1])
    /\ UNCHANGED <<sessionCaps, trackerVars>>

\* a caller invokes getContextManager(browser)
GetContextManager(browser) ==
    /\ Len(requests) < MaxRequests
    /\ IF contextManager[browser] # 0
         THEN /\ requests' = Append(requests, [browser |-> browser,
                                               manager |-> contextManager[browser]])
              /\ UNCHANGED <<contextManager, constructed, listeners>>
         ELSE /\ constructed' = Append(constructed, browser)
              /\ listeners' = [listeners EXCEPT ![browser] = @ + ConstructorListeners(browser)]
              /\ contextManager' = [contextManager EXCEPT ![browser] = Len(constructed) + 1]
              /\ requests' = Append(requests, [browser |-> browser,
                                               manager |-> Len(constructed) + 1])
    /\ UNCHANGED <<sessionCaps, trackerVars>>

\* the state after new ContextManager(browser)
Init ==
    /\ currentContext = Undefined
    /\ mobileContext = Undefined
    /\ isNativeContext \in BOOLEAN
    /\ isBidi \in BOOLEAN
    /\ isMobile \in BOOLEAN
    /\ unitTests \in BOOLEAN
    /\ subscribed = IsEnabledOf(unitTests, isBidi, isMobile)
    /\ pending = [c \in Callers |-> 0]
    /\ last = Step("constructor", None, None, None, None, None, Undefined)
    /\ RegistryIdle

Next ==
    \/ \E command \in Commands, handle \in Handles :
          \E name \in NamesOf(command) : CommandEvent(command, handle, name)
    \/ \E command \in ResultCommands, value \in ResultValues : ResultEvent(command, value)
    \/ \E context \in SetterArgs : SetCurrentContext(context)
    \/ Initialize
    \/ GetCurrentContext
    \/ \E caller \in Callers, windowHandle \in FetchResults :
          FetchResolve(caller, windowHandle)
    \/ \E caller \in Callers : FetchReject(caller)
    \/ \E ut \in BOOLEAN, bidi \in BOOLEAN, mobile \in BOOLEAN :
          EnvironmentChange(ut, bidi, mobile)

Spec == Init /\ [][Next]_vars

\* the state of the module before any getContextManager call
InitRegistry ==
    /\ contextManager = [b \in Sessions |-> 0]
    /\ constructed = <<>>
    /\ listeners = [b \in Sessions |-> 0]
    /\ sessionCaps \in [Sessions -> [isBidi : BOOLEAN, isMobile : BOOLEAN]]
    /\ requests = <<>>
    /\ unitTests \in BOOLEAN
    /\ currentContext = Undefined
    /\ mobileContext = Undefined
    /\ isNativeContext = FALSE
    /\ isBidi = FALSE
    /\ isMobile = FALSE
    /\ subscribed = FALSE
    /\ pending = [c \in Callers |-> 0]
    /\ last = Step("constructor", None, None, None, None, None, Undefined)

NextRegistry == \E browser \in Sessions : GetContextManager(browser)

SpecRegistry == InitRegistry /\ [][NextRegistry]_vars

----------------------------------------------------------------------------
\* Properties

\* the step taken is a getCurrentContext() call
IsRead == last'.op = "getCurrentContext" /\ last' # last

\* a getCurrentContext() call that goes through initialize(): '' when tracking is
\* disabled, NATIVE_APP stored and returned without a fetch in a native context,
\* otherwise one more fetch awaited
ReadInitializes ==
    IF ~IsEnabled
      THEN last'.ret = "" /\ UNCHANGED <<currentContext, pending>>
      ELSE IF isNativeContext
        THEN last'.ret = NATIVE_APP /\ currentContext' = NATIVE_APP /\ UNCHANGED pending
        ELSE /\ last'.ret = Awaiting
             /\ pending' = [pending EXCEPT !["getCurrentContext"] = @ + 1]
             /\ UNCHANGED currentContext

\* C1: on a tracker whose listeners are registered, a getCurrentContext() call made
\* right after a switchToWindow command event with a non-empty handle h returns h
\* and starts no fetch.
C1_SwitchToWindowThenRead ==
    [][(/\ subscribed
        /\ last.op = "command" /\ last.command = "switchToWindow" /\ Truthy(last.handle)
        /\ IsRead)
       => (last'.ret = last.handle /\ UNCHANGED <<pending, currentContext>>)]_vars

C1_Witness ==
    /\ subscribed /\ IsEnabled
    /\ last.op = "getCurrentContext"
    /\ last.after.op = "command" /\ last.after.command = "switchToWindow"
    /\ last.ret = "h1"
    /\ PendingTotal = 0

\* C2: a command event whose command is none of switchToWindow, switchToParentFrame,
\* refresh and switchContext leaves currentContext, mobileContext and the native-app
\* flag unchanged, whatever its body contains.
C2_UnrelatedCommandLeavesState ==
    [][(last'.op = "command" /\ last'.command = "click")
       => UNCHANGED <<currentContext, mobileContext, isNativeContext>>]_vars

\* C3: on a tracker whose listeners are registered, after a getContext result event
\* with a non-empty value v, currentContext is v and the native-app flag is true
\* exactly when v is NATIVE_APP.
C3_GetContextResult ==
    (subscribed /\ last.op = "result" /\ last.command = "getContext" /\ Truthy(last.value))
    => (currentContext = last.value /\ isNativeContext = (last.value = NATIVE_APP))

C3_Witness ==
    /\ subscribed
    /\ last.op = "result" /\ last.command = "getContext" /\ last.value = NATIVE_APP
    /\ last.before = "h1"
    /\ currentContext = NATIVE_APP /\ isNativeContext

\* C4: on a tracker whose listeners are registered, a switchContext command event with
\* a non-empty name n followed by a switchContext result event with value null makes
\* currentContext n and the native-app flag true exactly when n is NATIVE_APP.
C4_SwitchContextFallback ==
    [][(/\ subscribed
        /\ last.op = "command" /\ last.command = "switchContext" /\ Truthy(last.name)
        /\ last'.op = "result" /\ last'.command = "switchContext" /\ last'.value = Null)
       => (/\ currentContext' = last.name
           /\ isNativeContext' = (last.name = NATIVE_APP)
           /\ mobileContext' = last.name)]_vars

C4_Witness ==
    /\ subscribed
    /\ last.op = "result" /\ last.command = "switchContext" /\ last.value = Null
    /\ last.before = "h1"
    /\ mobileContext = "WEBVIEW_1" /\ currentContext = "WEBVIEW_1" /\ ~isNativeContext

\* C5: on a tracker built disabled and still disabled, with no fetch awaited, every
\* command event, result event and call to initialize, setCurrentContext and
\* getCurrentContext leaves currentContext, mobileContext and the native-app flag
\* as they were, starts no fetch, and every initialize/getCurrentContext returns ''.
C5_DisabledTrackerInert ==
    [][(~subscribed /\ ~IsEnabled /\ PendingTotal = 0 /\ last'.op # "environment")
       => (/\ UNCHANGED <<currentContext, mobileContext, isNativeContext, pending>>
           /\ (last'.op \in Callers => last'.ret = ""))]_vars

\* a switchToParentFrame or refresh command event that carries no handle value
IsReset(step) ==
    /\ step.op = "command"
    /\ step.command \in {"switchToParentFrame", "refresh"}
    /\ ~Truthy(step.handle)

\* C6: on an enabled tracker holding a non-empty currentContext, a switchToParentFrame
\* or refresh command event with an empty handle leaves currentContext without a
\* value (undefined when the event has no handle, the handle's empty string
\* otherwise) and leaves the native-app flag and mobileContext unchanged; a
\* getCurrentContext() call made next goes through initialize().
C6_ResetThenLazyInit ==
    [][/\ (subscribed /\ Truthy(currentContext) /\ IsReset(last') /\ last' # last)
          => (/\ ~Truthy(currentContext')
              /\ currentContext' = last'.handle
              /\ UNCHANGED <<isNativeContext, mobileContext>>)
       /\ (subscribed /\ IsEnabled /\ IsReset(last) /\ IsRead)
          => (ReadInitializes /\ last'.ret # "")]_vars

C6_Witness ==
    /\ subscribed /\ IsEnabled
    /\ last.op = "getCurrentContext"
    /\ last.after.op = "command" /\ last.after.command = "switchToParentFrame"
    /\ last.after.held
    /\ last.before = Undefined
    /\ last.ret = Awaiting /\ pending["getCurrentContext"] = 1

\* the step before was the previous getCurrentContext() call resolving
ReadResolved ==
    \/ last.op = "resolve" /\ last.command = "getCurrentContext"
    \/ last.op = "getCurrentContext" /\ last.ret # Awaiting

\* C7 as stated: on an enabled tracker, a getCurrentContext() call made right after
\* the previous one resolved returns the same value and starts no fetch, for every
\* value the fetch can return.
C7_ReadTwice ==
    [][(subscribed /\ IsEnabled /\ ReadResolved /\ IsRead)
       => (last'.ret = last.ret /\ UNCHANGED pending)]_vars

\* C7 amended: the same, when the value the first call resolved to is not empty.
C7_ReadTwiceNonEmpty ==
    [][(subscribed /\ IsEnabled /\ ReadResolved /\ Truthy(last.ret) /\ IsRead)
       => (last'.ret = last.ret /\ UNCHANGED <<pending, currentContext>>)]_vars

C7_Witness ==
    /\ subscribed /\ IsEnabled
    /\ last.op = "getCurrentContext"
    /\ last.after.op = "resolve" /\ last.after.command = "getCurrentContext"
    /\ last.ret = "h2"
    /\ PendingTotal = 0

\* C8: setCurrentContext(c) stores c as currentContext and leaves mobileContext alone;
\* the native-app flag becomes (c = NATIVE_APP) when c is non-empty and keeps its value
\* when c is empty; a getCurrentContext() call made right after setCurrentContext("")
\* goes through initialize().
C8_Setter ==
    [][/\ (last'.op = "setCurrentContext" /\ last' # last)
          => (/\ currentContext' = last'.value
              /\ UNCHANGED mobileContext
              /\ isNativeContext' = IF last'.value # ""
                                       THEN last'.value = NATIVE_APP
                                       ELSE isNativeContext)
       /\ (last.op = "setCurrentContext" /\ last.value = "" /\ IsRead)
          => ReadInitializes]_vars

C8_Witness ==
    /\ subscribed /\ IsEnabled
    /\ last.op = "getCurrentContext"
    /\ last.after.op = "setCurrentContext" /\ last.after.held
    /\ last.before = ""
    /\ last.ret = Awaiting /\ pending["getCurrentContext"] = 1

\* C9: when the fetch awaited by initialize() fails, the caller gets the failure, the
\* call writes nothing to currentContext, mobileContext or the native-app flag and
\* starts no other fetch; a getCurrentContext() call made next on a currentContext
\* without a value goes through initialize() again.
C9_FetchFailure ==
    [][/\ (last'.op = "reject" /\ last' # last)
          => (/\ last'.ret = Rejected
              /\ UNCHANGED <<currentContext, mobileContext, isNativeContext>>
              /\ pending' = [pending EXCEPT ![last'.command] = @ - 1])
       /\ (last.op = "reject" /\ ~Truthy(currentContext) /\ IsRead)
          => ReadInitializes]_vars

C9_Witness ==
    /\ subscribed /\ IsEnabled
    /\ last.op = "getCurrentContext"
    /\ last.after.op = "reject" /\ last.after.command = "getCurrentContext"
    /\ last.before = Undefined
    /\ last.ret = Awaiting /\ pending["getCurrentContext"] = 1

\* C10: getContextManager returns the same manager for the same session and different
\* managers for different sessions; the constructor runs at most once per session, so
\* a session carries at most one pair of listeners.
C10_OneManagerPerSession ==
    /\ \A i \in DOMAIN requests : \A j \in DOMAIN requests :
          (requests[i].browser = requests[j].browser)
              <=> (requests[i].manager = requests[j].manager)
    /\ \A i \in DOMAIN requests : contextManager[requests[i].browser] = requests[i].manager
    /\ \A b \in Sessions :
          /\ Cardinality({i \in DOMAIN constructed : constructed[i] = b}) <= 1
          /\ listeners[b] <= 2

C10_Witness ==
    /\ Len(requests) = 3
    /\ requests[1].browser = "s1" /\ requests[2].browser = "s2" /\ requests[3].browser = "s1"
    /\ requests[3].manager = requests[1].manager
    /\ requests[2].manager # requests[1].manager
    /\ listeners["s1"] = 2

\* C11: when a switchToWindow command event with handle h is delivered while an
\* initialize() awaits the fetch, and the fetch then resolves with another handle h0,
\* currentContext is h0 and not h: the write of initialize() overwrites the switch.
C11_InitializeOverwritesSwitch ==
    [][(/\ subscribed
        /\ last.op = "command" /\ last.command = "switchToWindow" /\ Truthy(last.handle)
        /\ currentContext = last.handle
        /\ PendingTotal > 0
        /\ last'.op = "resolve" /\ last'.ret # last.handle)
       => (currentContext' = last'.ret /\ currentContext' # last.handle)]_vars

C11_Witness ==
    /\ subscribed
    /\ last.op = "resolve" /\ last.command = "getCurrentContext"
    /\ last.after.op = "command" /\ last.after.command = "switchToWindow"
    /\ last.before = "h1" /\ last.ret = "h2"
    /\ currentContext = "h2" /\ ~isNativeContext
    /\ PendingTotal = 0

\* the native-app flag agrees with a non-empty currentContext
FlagConsistent == Truthy(currentContext) => (isNativeContext <=> currentContext = NATIVE_APP)

\* C12 as stated: in every reachable state of a tracker whose listeners are
\* registered, a non-empty currentContext is NATIVE_APP exactly when the native-app
\* flag is true, also when events are delivered while an initialization is pending.
C12_FlagConsistent == subscribed => FlagConsistent

\* C12 amended: the agreement holds initially and every step keeps it, except a fetch
\* that resolves while the flag is true (the flag was false when initialize() started
\* the fetch, and an event or setter call set it while the fetch was pending).
C12_FlagConsistentUnlessStaleFetch ==
    [][(FlagConsistent /\ ~(last'.op = "resolve" /\ isNativeContext))
       => FlagConsistent']_vars

C12_Witness ==
    /\ subscribed
    /\ last.op = "resolve" /\ last.command = "getCurrentContext"
    /\ last.after.op = "result" /\ last.after.command = "getContext"
    /\ last.before = "h2" /\ last.ret = "h1"
    /\ currentContext = "h1" /\ ~isNativeContext

\* C13: a switchContext command event only records its name as mobileContext: it
\* leaves currentContext and the native-app flag as they were before the event
\* (stated for the events that carry a name and no handle, as the command does).
C13_SwitchContextCommandOnlyRecordsName ==
    [][(/\ subscribed
        /\ last'.op = "command" /\ last'.command = "switchContext"
        /\ last'.handle = Undefined)
       => (mobileContext' = last'.name /\ UNCHANGED <<currentContext, isNativeContext>>)]_vars

\* C14: a result event changes currentContext or the native-app flag only when it is
\* a getContext result, or a switchContext result with value null while a non-empty
\* mobileContext is remembered; no result event changes mobileContext.
C14_ResultFrame ==
    [][(last'.op = "result")
       => (/\ UNCHANGED mobileContext
           /\ (~(\/ last'.command = "getContext"
                 \/ (/\ last'.command = "switchContext"
                     /\ last'.value = Null
                     /\ Truthy(mobileContext)))
               => UNCHANGED <<currentContext, isNativeContext>>))]_vars

C14_Witness ==
    /\ subscribed
    /\ last.op = "result" /\ last.command = "switchContext" /\ last.value = Null
    /\ ~Truthy(mobileContext)
    /\ last.before = NATIVE_APP /\ currentContext = NATIVE_APP /\ isNativeContext

\* the step taken is a call that reaches initialize(): initialize() itself, or
\* getCurrentContext() on a currentContext without a value
ReachesInitialize ==
    \/ last'.op = "initialize"
    \/ last'.op = "getCurrentContext" /\ ~Truthy(currentContext)

C16_Initialize ==
    [][/\ (IsEnabled /\ last'.op = "initialize")
          => (/\ UNCHANGED <<isNativeContext, mobileContext>>
              /\ IF isNativeContext
                   THEN /\ last'.ret = NATIVE_APP
                        /\ currentContext' = NATIVE_APP
                        /\ UNCHANGED pending
                   ELSE /\ last'.ret = Awaiting
                        /\ pending' = [pending EXCEPT !["initialize"] = @ + 1]
                        /\ UNCHANGED currentContext)
       /\ (last'.op = "resolve")
          => (/\ currentContext' = last'.ret
              /\ pending' = [pending EXCEPT ![last'.command] = @ - 1]
              /\ UNCHANGED <<isNativeContext, mobileContext>>)]_vars

C16_Witness ==
    /\ IsEnabled /\ isNativeContext
    /\ last.op = "initialize" /\ last.ret = NATIVE_APP
    /\ last.before = "h1" /\ currentContext = NATIVE_APP
    /\ mobileContext = "WEBVIEW_1"
    /\ PendingTotal = 0

\* C17: getCurrentContext() on a non-empty currentContext returns it, starts no fetch
\* and leaves currentContext, mobileContext and the native-app flag unchanged; a
\* getCurrentContext() call starts a fetch only when currentContext has no value,
\* tracking is enabled and the session is not in a native-app context.
C17_ReadFrame ==
    [][(last'.op = "getCurrentContext")
       => (/\ UNCHANGED <<mobileContext, isNativeContext>>
           /\ Truthy(currentContext)
                => (/\ last'.ret = currentContext
                    /\ UNCHANGED <<currentContext, pending>>)
           /\ (pending' # pending)
                => (~Truthy(currentContext) /\ IsEnabled /\ ~isNativeContext))]_vars

C17_Witness ==
    /\ subscribed /\ IsEnabled
    /\ last.op = "getCurrentContext"
    /\ last.after.op = "result" /\ last.after.command = "getContext"
    /\ last.before = "h2" /\ last.ret = "h2" /\ currentContext = "h2"
    /\ pending["initialize"] = 1

\* C18: mobileContext is absent initially; a switchContext command event delivered to
\* the listener makes it the name the event carries, and no other step (another
\* event, initialize, setCurrentContext, getCurrentContext, a fetch settling)
\* changes it: it is always absent or the name of the most recent switchContext
\* command event.
C18_MobileContext ==
    /\ mobileContext = Undefined
    /\ [][IF subscribed /\ last'.op = "command" /\ last'.command = "switchContext"
            THEN mobileContext' = last'.name
            ELSE UNCHANGED mobileContext]_vars

C18_Witness ==
    /\ subscribed
    /\ mobileContext = NATIVE_APP
    /\ last.op = "resolve" /\ last.command = "initialize"
    /\ last.after.op = "setCurrentContext"
    /\ currentContext = "h2"

====
